---------------------------- MODULE Spec2Model ----------------------------
(***************************************************************************)
(* A model of src/c_reference/rscope_shim.c: the dot-pattern generator,    *)
(* the pixel reader with its sRGB remap, and the dot and line analyzers.   *)
(*                                                                         *)
(* Arithmetic.  The offsets, weights, scale factor and area of the         *)
(* analyzers are C doubles; the model keeps them as exact rationals        *)
(* (records [n, d] in lowest terms).  The one comparison of two inexactly  *)
(* computed doubles that decides control flow, the skip test of            *)
(* rs_analyze_dot, is modelled with its rounding: when both sides are      *)
(* equal as real numbers and the computation is inexact, either outcome    *)
(* is possible.  read_pixel's sRGB path is modelled in a binary floating   *)
(* point format with MantBits bits of mantissa and round-to-nearest-even   *)
(* (a double has 53).                                                      *)
(***************************************************************************)
EXTENDS Integers, Sequences, FiniteSets, TLC

VARIABLES
    fn,        \* the function being executed: "gen", "pixel", "dot", "line"
    pc,        \* position inside that function
    buf,       \* rs_generate_dot_pattern: the caller's buffer, kept as what was
               \* stored into it: its contents on entry (prior), the length of
               \* the prefix memset filled with DARK (cleared) and the indices
               \* j*557+i the loop stored BRIGHT at (bright)
    gj,        \* rs_generate_dot_pattern: the row counter j
    pbuf,      \* read_pixel: the buffer, as a function of the byte index
    px, py,    \* read_pixel: the coordinates
    srgb,      \* read_pixel and the analyzers: the srgb flag
    pow50,     \* read_pixel: what pow returns inside c_srgb_to_linear(50.0/255.0)
    pow250,    \* read_pixel: what pow returns inside c_srgb_to_linear(250.0/255.0)
    w, h,      \* analyzers: the dimensions passed
    pitch,     \* the row stride of the buffer the raster lives in (read_pixel: its stride argument)
    img,       \* analyzers: which raster the caller passes
    strip,     \* rs_analyze_dot: the strip counter
    col,       \* rs_analyze_dot: dstpos; rs_analyze_line: i
    count,     \* rs_analyze_dot: count
    tot,       \* rs_analyze_line: tot, as a rational
    offsets,   \* rs_analyze_line: the offsets array written so far
    weights,   \* rs_analyze_line: the weights array written so far
    last,      \* what the last loop iteration did (its reads, its write)
    seen,      \* rs_analyze_line: the pixel values read so far, in column order
    oob,       \* TRUE once a byte outside the pitch*h bytes of the buffer was read
    out,       \* *out_count or *out_area once stored
    ret        \* the value returned

vars == <<fn, pc, buf, gj, pbuf, px, py, srgb, pow50, pow250, w, h, pitch, img,
          strip, col, count, tot, offsets, weights, last, seen, oob, out, ret>>

----------------------------------------------------------------------------
(* Program constants *)

DOTIMG_SRC_WIDTH == 557
DOTIMG_HPIXELSPAN == 25
DOTIMG_NUMSTRIPS == DOTIMG_HPIXELSPAN
DOTIMG_HCENTER == (DOTIMG_HPIXELSPAN - 1) \div 2
DOTIMG_STRIPHEIGHT == 11
DOTIMG_VCENTER == (DOTIMG_STRIPHEIGHT - 1) \div 2
DOTIMG_SRC_HEIGHT == DOTIMG_NUMSTRIPS * DOTIMG_STRIPHEIGHT
DOTIMG_DST_HEIGHT == DOTIMG_SRC_HEIGHT
LINEIMG_SRC_WIDTH == 15
LINEIMG_SRC_HEIGHT == 15
DARK == 50
BRIGHT == 250
FirstGuess == 10000

(* Bounds of the model *)

MantBits == 12
MaxStride == 2
MaxRow == 1
MaxW == 9
MaxPad == 1
MaxLineW == 12
MaxH == 5
MaxSeed == 3

NoValue == "none"
\* The value of last before the first iteration.
NoIter == [emit |-> FALSE, reads |-> {}]
Bytes == 0 .. 255

----------------------------------------------------------------------------
(* C integer and double helpers *)

Abs(x) == IF x < 0 THEN -x ELSE x

\* C's %: the remainder has the sign of the dividend.
CRem(a, b) == IF a >= 0 THEN a % b ELSE -((-a) % b)

\* C's / on ints: truncation toward zero.
CDiv(a, b) == IF a >= 0 THEN a \div b ELSE -((-a) \div b)

RECURSIVE GCD(_, _)
GCD(a, b) == IF b = 0 THEN a ELSE GCD(b, a % b)

\* The rational n/d in lowest terms with a positive denominator.
R(n, d) ==
    LET g == GCD(Abs(n), Abs(d))
        s == IF d < 0 THEN -1 ELSE 1
    IN [n |-> (s * n) \div g, d |-> (s * d) \div g]

RInt(k) == [n |-> k, d |-> 1]
RAdd(a, b) == R(a.n * b.d + b.n * a.d, a.d * b.d)
RSub(a, b) == R(a.n * b.d - b.n * a.d, a.d * b.d)
RMul(a, b) == R(a.n * b.n, a.d * b.d)
RDiv(a, b) == R(a.n * b.d, a.d * b.n)
RLess(a, b) == a.n * b.d < b.n * a.d


genVars == <<buf, gj>>
pixelVars == <<pbuf, px, py, pow50, pow250>>
anVars == <<w, h, img, strip, col, count, tot, offsets, weights, last, seen, oob, out>>

GenIdle == buf = NoValue /\ gj = 0
PixelIdle == pbuf = NoValue /\ px = 0 /\ py = 0 /\ pow50 = NoValue /\ pow250 = NoValue
AnIdle ==
    /\ w = 0 /\ h = 0 /\ img = NoValue /\ strip = 0 /\ col = 0 /\ count = 0
    /\ tot = NoValue /\ offsets = << >> /\ weights = << >> /\ last = NoIter
    /\ seen = << >> /\ oob = FALSE /\ out = NoValue

----------------------------------------------------------------------------
(* rs_generate_dot_pattern *)

DotRows == 0 .. DOTIMG_SRC_HEIGHT - 1
DotCols == 0 .. DOTIMG_SRC_WIDTH - 1

\* What the caller's buffer holds before the call.
Junk(s, i, j) == IF s = 0 THEN BRIGHT ELSE (s * (i + 3 * j) + 255) % 256

\* The number of bytes memset fills.
MemsetLen == DOTIMG_SRC_WIDTH * DOTIMG_SRC_HEIGHT

\* The byte at column i of row j of the buffer b: the last store to it.
GenByte(b, i, j) ==
    LET idx == j * DOTIMG_SRC_WIDTH + i
    IN IF idx \in b.bright THEN BRIGHT
       ELSE IF idx < b.cleared THEN DARK
       ELSE Junk(b.prior, i, j)

\* DotCond without the right margin test (i < DOTIMG_SRC_WIDTH - DOTIMG_HCENTER).
DotCondNoRightMargin(i, j) ==
    /\ CRem(j, DOTIMG_STRIPHEIGHT) = DOTIMG_VCENTER
    /\ i >= DOTIMG_HCENTER
    /\ CRem(i - CDiv(j, DOTIMG_STRIPHEIGHT), DOTIMG_HPIXELSPAN) = DOTIMG_HCENTER

\* The condition under which the loop body stores BRIGHT at column i of row j.
DotCond(i, j) ==
    /\ CRem(j, DOTIMG_STRIPHEIGHT) = DOTIMG_VCENTER
    /\ i >= DOTIMG_HCENTER
    /\ i < DOTIMG_SRC_WIDTH - DOTIMG_HCENTER
    /\ LET s == CDiv(j, DOTIMG_STRIPHEIGHT)
           val == CRem(i - s, DOTIMG_HPIXELSPAN)
       IN val = DOTIMG_HCENTER

\* The byte rs_generate_dot_pattern leaves at column i of row j.
DotPixelValue(i, j) == IF DotCond(i, j) THEN BRIGHT ELSE DARK

GenInit ==
    /\ fn = "gen" /\ pc = "memset"
    /\ buf \in {[prior |-> s, cleared |-> 0, bright |-> {}] : s \in 0 .. MaxSeed}
    /\ gj = 0
    /\ srgb = FALSE /\ pitch = DOTIMG_SRC_WIDTH /\ ret = NoValue
    /\ PixelIdle /\ AnIdle

GenMemset ==
    /\ fn = "gen" /\ pc = "memset"
    /\ buf' = [buf EXCEPT !.cleared = MemsetLen, !.bright = {}]
    /\ gj' = 0
    /\ pc' = "rows"
    /\ UNCHANGED <<fn, srgb, pitch, ret, pixelVars, anVars>>

\* One iteration of the loop over j: the whole inner loop over i.
GenRow ==
    /\ fn = "gen" /\ pc = "rows" /\ gj < DOTIMG_SRC_HEIGHT
    /\ buf' = [buf EXCEPT !.bright =
                  @ \cup {gj * DOTIMG_SRC_WIDTH + i : i \in {c \in DotCols : DotCond(c, gj)}}]
    /\ gj' = gj + 1
    /\ UNCHANGED <<fn, pc, srgb, pitch, ret, pixelVars, anVars>>

GenReturn ==
    /\ fn = "gen" /\ pc = "rows" /\ gj >= DOTIMG_SRC_HEIGHT
    /\ pc' = "done"
    /\ UNCHANGED <<fn, srgb, pitch, ret, genVars, pixelVars, anVars>>

GenNext == GenMemset \/ GenRow \/ GenReturn

SpecGen == GenInit /\ [][GenNext]_vars

----------------------------------------------------------------------------
(* C3: after rs_generate_dot_pattern, pixel (i, j) is BRIGHT (250) exactly *)
(* when j mod 11 = 5, 12 <= i < 545 and the truncated remainder of         *)
(* (i - j div 11) by 25 is 12, and DARK (50) otherwise, whatever the       *)
(* buffer held before the call.                                            *)
C3_DotPlacement ==
    (fn = "gen" /\ pc = "done") =>
        \A j \in 0 .. 274 : \A i \in 0 .. 556 :
            GenByte(buf, i, j) = IF /\ j % 11 = 5
                                    /\ 12 <= i /\ i < 545
                                    /\ CRem(i - (j \div 11), 25) = 12
                                 THEN 250 ELSE 50

\* A finished call that placed the first dot of strip 0, left the column
\* with a negative dividend (12 - 24) dark, and overwrote the last byte.
C3_Witness ==
    /\ fn = "gen" /\ pc = "done"
    /\ buf.prior # 0
    /\ GenByte(buf, 12, 5) = BRIGHT
    /\ GenByte(buf, 12, 269) = DARK /\ GenByte(buf, 36, 269) = BRIGHT
    /\ GenByte(buf, 556, 274) = DARK

----------------------------------------------------------------------------
(* Binary floating point with MantBits bits of mantissa, round to nearest, *)
(* ties to even.  A value is [m, e], meaning m * 2^e, with m = 0 or        *)
(* 2^(MantBits-1) <= |m| < 2^MantBits.                                     *)

Sign(x) == IF x < 0 THEN -1 ELSE 1

BitLen(a) == CHOOSE L \in 0 .. 30 : a < 2 ^ L /\ (L = 0 \/ a >= 2 ^ (L - 1))

\* The float nearest to M * 2^E.
FRound(M, E) ==
    IF M = 0 THEN [m |-> 0, e |-> 0]
    ELSE LET a == Abs(M)
             L == BitLen(a)
         IN IF L <= MantBits
            THEN [m |-> Sign(M) * a * 2 ^ (MantBits - L), e |-> E - (MantBits - L)]
            ELSE LET sh == L - MantBits
                     q == a \div 2 ^ sh
                     r == a % 2 ^ sh
                     half == 2 ^ (sh - 1)
                     q2 == IF r > half \/ (r = half /\ q % 2 = 1) THEN q + 1 ELSE q
                 IN IF q2 = 2 ^ MantBits
                    THEN [m |-> Sign(M) * 2 ^ (MantBits - 1), e |-> E + sh + 1]
                    ELSE [m |-> Sign(M) * q2, e |-> E + sh]

FromInt(k) == FRound(k, 0)
FNeg(a) == [m |-> -a.m, e |-> a.e]

FMul(a, b) == FRound(a.m * b.m, a.e + b.e)

\* a / b: the quotient to MantBits + 2 bits and a sticky bit, then rounded.
FDiv(a, b) ==
    IF a.m = 0 THEN a
    ELSE LET num == Abs(a.m) * 2 ^ (MantBits + 2)
             q == num \div Abs(b.m)
             st == IF num % Abs(b.m) = 0 THEN 0 ELSE 1
         IN FRound(Sign(a.m) * Sign(b.m) * (2 * q + st), a.e - b.e - (MantBits + 2) - 1)

\* a + b: exact when the exponents are close, else the small operand is a sticky bit.
FAdd(a, b) ==
    IF a.m = 0 THEN b
    ELSE IF b.m = 0 THEN a
    ELSE LET hi == IF a.e >= b.e THEN a ELSE b
             lo == IF a.e >= b.e THEN b ELSE a
             sh == hi.e - lo.e
         IN IF sh <= MantBits + 2
            THEN FRound(hi.m * 2 ^ sh + lo.m, lo.e)
            ELSE FRound(hi.m * 2 ^ (MantBits + 3) + Sign(lo.m), hi.e - (MantBits + 3))

FSub(a, b) == FAdd(a, FNeg(b))
FLeq(a, b) == FSub(a, b).m <= 0

\* The literal n/d, n and d small enough to be exact.
FLit(n, d) == FDiv(FromInt(n), FromInt(d))

\* Whether the float a is exactly the integer k.
FIsInt(a, k) == a = FromInt(k)

----------------------------------------------------------------------------
(* c_srgb_to_linear and read_pixel *)

\* The argument the else branch of c_srgb_to_linear hands to pow.
PowArg(v) == FDiv(FAdd(v, FLit(55, 1000)), FLit(1055, 1000))

\* The floats pow may return for the anchor arguments: every float within
\* 0.00005 of 0.0319 (the true value is 0.031896...) and within 0.0005 of
\* 0.9560 (the true value is 0.955973...).
Pow50Outcomes ==
    {[m |-> k, e |-> -(MantBits + 4)] :
        k \in {x \in 2 ^ (MantBits - 1) .. 2 ^ MantBits - 1 :
                 /\ 3185 * 2 ^ (MantBits + 4) <= x * 100000
                 /\ x * 100000 <= 3195 * 2 ^ (MantBits + 4)}}
Pow250Outcomes ==
    {[m |-> k, e |-> -MantBits] :
        k \in {x \in 2 ^ (MantBits - 1) .. 2 ^ MantBits - 1 :
                 /\ 9555 * 2 ^ MantBits <= x * 10000
                 /\ x * 10000 <= 9565 * 2 ^ MantBits}}

\* pow(arg, 2.4): a function of its argument, known at the two anchors.
LibmPow(arg) ==
    IF arg = PowArg(FDiv(FromInt(DARK), FromInt(255))) THEN pow50
    ELSE IF arg = PowArg(FDiv(FromInt(BRIGHT), FromInt(255))) THEN pow250
    ELSE NoValue

c_srgb_to_linear(v_srgb) ==
    IF FLeq(v_srgb, FLit(4045, 100000))
    THEN FDiv(v_srgb, FLit(1292, 100))
    ELSE LibmPow(PowArg(v_srgb))

\* The index read_pixel reads.
ReadIndex(stride, x, y) == y * stride + x

\* read_pixel's sRGB remap without the subtraction of srgb50_lin.
SrgbRemapNoAnchor(raw) ==
    LET srgb50_lin == c_srgb_to_linear(FDiv(FromInt(50), FromInt(255)))
        srgb250_lin == c_srgb_to_linear(FDiv(FromInt(250), FromInt(255)))
        v_lin == c_srgb_to_linear(FDiv(raw, FromInt(255)))
    IN FAdd(FMul(v_lin,
                 FDiv(FSub(FromInt(250), FromInt(50)), FSub(srgb250_lin, srgb50_lin))),
            FromInt(50))

\* The value read_pixel returns for the double raw when srgb is set.
SrgbRemap(raw) ==
    LET srgb50_lin == c_srgb_to_linear(FDiv(FromInt(50), FromInt(255)))
        srgb250_lin == c_srgb_to_linear(FDiv(FromInt(250), FromInt(255)))
        v_lin == c_srgb_to_linear(FDiv(raw, FromInt(255)))
    IN FAdd(FMul(FSub(v_lin, srgb50_lin),
                 FDiv(FSub(FromInt(250), FromInt(50)), FSub(srgb250_lin, srgb50_lin))),
            FromInt(50))

read_pixel(b, stride, x, y, s) ==
    LET raw == FromInt(b[ReadIndex(stride, x, y)])
    IN IF s THEN SrgbRemap(raw) ELSE raw

\* The bytes the sRGB path is modelled for: the two anchors, and the bytes
\* on the linear branch of c_srgb_to_linear, which needs no pow.
SrgbBytes ==
    {b \in Bytes : \/ b \in {DARK, BRIGHT}
                   \/ FLeq(FDiv(FromInt(b), FromInt(255)), FLit(4045, 100000))}

PBufLen == MaxStride * (MaxRow + 1)

PixelInit ==
    /\ fn = "pixel" /\ pc = "call"
    /\ srgb \in BOOLEAN
    /\ pitch \in 1 .. MaxStride
    /\ px \in 0 .. pitch - 1
    /\ py \in 0 .. MaxRow
    /\ \E b \in (IF srgb THEN SrgbBytes ELSE Bytes) :
          pbuf = [idx \in 0 .. PBufLen - 1 |->
                     IF idx = py * pitch + px THEN b ELSE (b + 128) % 256]
    /\ pow50 \in (IF srgb THEN Pow50Outcomes ELSE {NoValue})
    /\ pow250 \in (IF srgb THEN Pow250Outcomes ELSE {NoValue})
    /\ ret = NoValue
    /\ GenIdle /\ AnIdle

PixelRaw ==
    /\ fn = "pixel" /\ pc = "call" /\ ~srgb
    /\ ret' = read_pixel(pbuf, pitch, px, py, srgb)
    /\ pc' = "done"
    /\ UNCHANGED <<fn, srgb, pitch, genVars, pixelVars, anVars>>

PixelSrgb ==
    /\ fn = "pixel" /\ pc = "call" /\ srgb
    /\ ret' = read_pixel(pbuf, pitch, px, py, srgb)
    /\ pc' = "done"
    /\ UNCHANGED <<fn, srgb, pitch, genVars, pixelVars, anVars>>

PixelNext == PixelRaw \/ PixelSrgb

SpecPixel == PixelInit /\ [][PixelNext]_vars

----------------------------------------------------------------------------
(* C7: read_pixel with srgb on returns exactly 50.0 for a raw byte of 50   *)
(* and exactly 250.0 for a raw byte of 250, for any stride and             *)
(* coordinates; with srgb off it returns the byte's own value for every    *)
(* byte value.                                                             *)
C7_AnchorIdentity ==
    (fn = "pixel" /\ pc = "done") =>
        LET b == pbuf[py * pitch + px]
        IN /\ (srgb /\ b = 50) => FIsInt(ret, 50)
           /\ (srgb /\ b = 250) => FIsInt(ret, 250)
           /\ ~srgb => FIsInt(ret, b)

\* An sRGB read of a 250 byte that is not in the first row, from a buffer
\* whose stride exceeds 1.
C7_Witness ==
    /\ fn = "pixel" /\ pc = "done" /\ srgb
    /\ pitch > 1 /\ py > 0
    /\ pbuf[py * pitch + px] = 250
    /\ FIsInt(ret, 250)

----------------------------------------------------------------------------
(* The raster handed to the analyzers *)

\* The byte rs_generate_line_pattern leaves at column i of row j.
LinePixelValue(i, j) == IF i = CDiv(LINEIMG_SRC_WIDTH, 2) THEN BRIGHT ELSE DARK

\* The byte at index idx of the buffer the raster lives in.  The raster's
\* rows are pitch bytes apart and the buffer has pitch * h bytes.
BufByte(idx) ==
    CASE img = "dotsrc" -> DotPixelValue(idx % pitch, idx \div pitch)
      [] img = "linesrc" -> LinePixelValue(idx % pitch, idx \div pitch)
      [] OTHER -> (37 * idx + 11) % 256

InBuffer(idx) == idx >= 0 /\ idx < pitch * h

\* What a read outside the buffer may yield, when it does not trap.
OobBytes == {0, 255}

\* The byte read at idx; g is what an out-of-bounds read yields.
PixelByte(idx, g) == IF InBuffer(idx) THEN BufByte(idx) ELSE g

\* The stride argument with which the analyzers call read_pixel.
StrideIsPitch(width, p) == p
StrideArg(width, p) == width

\* scale_factor = (double)w / (double)src_width
ScaleFactor(width, srcw) == R(width, srcw)

\* The rescale with the comparison reversed.
RescaleInverted(sf, offset, weight) ==
    IF RLess(RInt(1), sf)
    THEN [offset |-> offset, weight |-> RDiv(weight, sf), rescaled |-> "weight"]
    ELSE [offset |-> RDiv(offset, sf), weight |-> weight, rescaled |-> "offset"]

\* The rescale applied to the weight whatever the scale factor.
RescaleWeightAlways(sf, offset, weight) ==
    [offset |-> offset, weight |-> RDiv(weight, sf), rescaled |-> "weight"]

\* if (scale_factor < 1.0) weight /= scale_factor; else offset /= scale_factor;
Rescale(sf, offset, weight) ==
    IF RLess(sf, RInt(1))
    THEN [offset |-> offset, weight |-> RDiv(weight, sf), rescaled |-> "weight"]
    ELSE [offset |-> RDiv(offset, sf), weight |-> weight, rescaled |-> "offset"]

----------------------------------------------------------------------------
(* rs_analyze_dot *)

\* Offsets inside the nearest-candidate loop are kept as integer multiples
\* of 1 / OffUnit: zp = scale_factor*(k + 0.5 - 557/2) + w/2 - 0.5 is
\* (w*(2k + 1 - 557) + 557*(w - 1)) / (2*557).
OffUnit == 2 * DOTIMG_SRC_WIDTH

ZpNum(width, k) == width * (2 * k + 1 - DOTIMG_SRC_WIDTH) + DOTIMG_SRC_WIDTH * (width - 1)

TmpOffsetNum(width, d, k) == OffUnit * d - ZpNum(width, k)

\* The loop over k, entered with the running offset.
RECURSIVE NearestLoop(_, _, _, _)
NearestLoop(width, d, k, offset) ==
    IF k < DOTIMG_SRC_WIDTH - DOTIMG_HCENTER
    THEN LET tmp == TmpOffsetNum(width, d, k)
         IN NearestLoop(width, d, k + DOTIMG_HPIXELSPAN,
                        IF Abs(tmp) < Abs(offset) THEN tmp ELSE offset)
    ELSE offset

\* The loop entered at k = DOTIMG_HCENTER, the strip's shift left out.
NearestNoStripShift(width, s, d) == NearestLoop(width, d, DOTIMG_HCENTER, FirstGuess * OffUnit)

\* The offset (times OffUnit) after the loop, for strip s and column d.
Nearest(width, s, d) == NearestLoop(width, d, DOTIMG_HCENTER + s, FirstGuess * OffUnit)

\* scale_factor * DOTIMG_HCENTER, times OffUnit.
SkipLimitNum(width) == 2 * width * DOTIMG_HCENTER

\* The skip test with >= in place of >.
SkipOutcomesStrict(width, offnum) == {Abs(offnum) >= SkipLimitNum(width)}

\* The outcomes of fabs(offset) > scale_factor * DOTIMG_HCENTER.  Both sides
\* are computed in doubles.  Unequal real values are at least 1/OffUnit
\* apart, far more than the rounding error, so the doubles compare as the
\* reals do.  Equal real values compare equal when the computation is exact
\* (w a multiple of 557, scale_factor an integer); otherwise the rounding
\* errors decide and either outcome occurs.
SkipOutcomes(width, offnum) ==
    IF Abs(offnum) = SkipLimitNum(width) /\ width % DOTIMG_SRC_WIDTH # 0
    THEN {TRUE, FALSE}
    ELSE {Abs(offnum) > SkipLimitNum(width)}

\* y = DOTIMG_STRIPHEIGHT * strip + row
DotRowOffByOne(s, row) == DOTIMG_STRIPHEIGHT * s + row + 1
DotRow(s, row) == DOTIMG_STRIPHEIGHT * s + row

\* The reads of the loop over row, for strip s and column d.
DotReads(width, s, d) ==
    {[x |-> d, y |-> DotRow(s, row),
      idx |-> ReadIndex(StrideArg(width, pitch), d, DotRow(s, row))] :
        row \in 0 .. DOTIMG_STRIPHEIGHT - 1}

\* tot after the loop over row (srgb = 0: read_pixel returns the byte).
RECURSIVE ColumnTot(_, _, _, _, _)
ColumnTot(width, s, d, row, g) ==
    IF row < DOTIMG_STRIPHEIGHT
    THEN (PixelByte(ReadIndex(StrideArg(width, pitch), d, DotRow(s, row)), g) - 50)
         + ColumnTot(width, s, d, row + 1, g)
    ELSE 0

\* The widths forced above and below the source width.
DotForcedWidths == {2 * DOTIMG_SRC_WIDTH, DOTIMG_SRC_WIDTH \div 2}
DotWidths == (1 .. MaxW) \cup {DOTIMG_SRC_WIDTH}
DotHeights == {DOTIMG_DST_HEIGHT, DOTIMG_DST_HEIGHT - 1, DOTIMG_STRIPHEIGHT}

\* The calls that are modelled: small rasters of every height and pitch,
\* and contiguous rasters of the fixed height: the unmodified source pattern
\* and rasters of the forced widths.
DotCalls(widths) ==
    {c \in [w : widths, h : DotHeights, pitch : 1 .. 2 * DOTIMG_SRC_WIDTH + MaxPad,
            img : {"ramp", "dotsrc"}] :
        /\ c.pitch >= c.w /\ c.pitch <= c.w + MaxPad
        /\ c.img = "dotsrc" <=> c.w = DOTIMG_SRC_WIDTH
        /\ c.w > MaxW => (c.h = DOTIMG_DST_HEIGHT /\ c.pitch = c.w)}

DotEntry(widths) ==
    /\ fn = "dot" /\ pc = "loop"
    /\ \E c \in DotCalls(widths) : w = c.w /\ h = c.h /\ pitch = c.pitch /\ img = c.img
    /\ srgb = FALSE
    /\ strip = 0 /\ col = 0 /\ count = 0
    /\ tot = NoValue /\ offsets = << >> /\ weights = << >> /\ seen = << >>
    /\ last = NoIter /\ oob = FALSE /\ out = NoValue /\ ret = NoValue
    /\ GenIdle /\ PixelIdle

DotInit == DotEntry(DotWidths)

\* dstpos++, and at the end of the row strip++.
DotAdvance ==
    /\ col' = IF col + 1 < w THEN col + 1 ELSE 0
    /\ strip' = IF col + 1 < w THEN strip ELSE strip + 1

\* The sample stored for strip s and column d when the nearest offset is
\* off (times OffUnit), the next free index is idx and an out-of-bounds
\* read yields g.
DotSample(s, d, off, idx, g) ==
    LET weight == R(ColumnTot(w, s, d, 0, g), 200)
        offset == R(off, OffUnit)
        res == Rescale(ScaleFactor(w, DOTIMG_SRC_WIDTH), offset, weight)
    IN [strip |-> s, col |-> d, emit |-> TRUE, near |-> off,
        reads |-> DotReads(w, s, d), idx |-> idx,
        offset0 |-> offset, weight0 |-> weight,
        offset |-> res.offset, weight |-> res.weight, rescaled |-> res.rescaled]

\* What one iteration of the loop over dstpos can do: take the continue
\* ("skip"), read the column and store a sample ("emit"), or trap on a read
\* outside the buffer ("fault").
DotOutcomes ==
    LET off == Nearest(w, strip, col)
        skips == SkipOutcomes(w, off)
        outside == ~InBuffer(ReadIndex(StrideArg(w, pitch), col,
                                       DotRow(strip, DOTIMG_STRIPHEIGHT - 1)))
    IN {[kind |-> "skip",
         last |-> [strip |-> strip, col |-> col, emit |-> FALSE, near |-> off,
                   reads |-> {}]] : x \in skips \cap {TRUE}}
       \cup {[kind |-> "emit", last |-> DotSample(strip, col, off, count, g)] :
                g \in (IF FALSE \in skips THEN (IF outside THEN OobBytes ELSE {0}) ELSE {})}
       \cup {[kind |-> "fault", last |-> last] :
                x \in (IF outside THEN skips \cap {FALSE} ELSE {})}

\* One iteration of the loop over dstpos.
DotIter ==
    /\ fn = "dot" /\ pc = "loop" /\ strip < DOTIMG_NUMSTRIPS
    /\ \E o \in DotOutcomes :
          /\ last' = o.last
          /\ count' = IF o.kind = "emit" THEN count + 1 ELSE count
          /\ oob' = (oob \/ (o.kind = "fault")
                         \/ (o.kind = "emit" /\ \E r \in o.last.reads : ~InBuffer(r.idx)))
          /\ pc' = IF o.kind = "fault" THEN "fault" ELSE pc
          /\ IF o.kind = "fault" THEN UNCHANGED <<strip, col>> ELSE DotAdvance
    /\ UNCHANGED <<fn, srgb, pitch, ret, genVars, pixelVars,
                   w, h, img, tot, offsets, weights, seen, out>>

DotReturn ==
    /\ fn = "dot" /\ pc = "loop" /\ strip >= DOTIMG_NUMSTRIPS
    /\ out' = count
    /\ ret' = ScaleFactor(w, DOTIMG_SRC_WIDTH)
    /\ pc' = "done"
    /\ UNCHANGED <<fn, srgb, pitch, genVars, pixelVars,
                   w, h, img, strip, col, count, tot, offsets, weights, last, seen, oob>>

DotNext == DotIter \/ DotReturn

SpecDot == DotInit /\ [][DotNext]_vars

----------------------------------------------------------------------------
(* rs_analyze_line *)

\* The row read for column i without the h < 3 case.
LineRowAlwaysCycle(height, i) ==
    LET y == CDiv(height, 2) + CRem(i, 3) - 1
    IN IF y < 0 THEN 0 ELSE IF y >= height THEN height - 1 ELSE y

\* The row read for column i.
LineRow(height, i) ==
    IF height >= 3
    THEN LET y == CDiv(height, 2) + CRem(i, 3) - 1
         IN IF y < 0 THEN 0 ELSE IF y >= height THEN height - 1 ELSE y
    ELSE CDiv(height, 2)

\* offset = 0.5 + (double)i - ((double)w) / 2.0
LineOffset(width, i) == R(1 + 2 * i - width, 2)

\* tot += weight, with the rescaled weight added in place of the raw one.
AccumulateRescaled(t, weight, rescaled) == RAdd(t, rescaled)
Accumulate(t, weight, rescaled) == RAdd(t, weight)

\* *out_area = tot / scale_factor
Area(t, sf) == RDiv(t, sf)

LineForcedWidths == {2 * LINEIMG_SRC_WIDTH, LINEIMG_SRC_WIDTH \div 2}
LineWidths == (1 .. MaxLineW) \cup {LINEIMG_SRC_WIDTH}
LineHeights == (1 .. MaxH) \cup {LINEIMG_SRC_HEIGHT}

LineCalls(widths) ==
    {c \in [w : widths, h : LineHeights, pitch : 1 .. 2 * LINEIMG_SRC_WIDTH + MaxPad,
            img : {"ramp", "linesrc"}] :
        /\ c.pitch >= c.w /\ c.pitch <= c.w + MaxPad
        /\ c.img = "linesrc" =>
              (c.w = LINEIMG_SRC_WIDTH /\ c.h = LINEIMG_SRC_HEIGHT /\ c.pitch = c.w)}

LineEntry(widths) ==
    /\ fn = "line" /\ pc = "loop"
    /\ \E c \in LineCalls(widths) : w = c.w /\ h = c.h /\ pitch = c.pitch /\ img = c.img
    /\ srgb = FALSE
    /\ strip = 0 /\ col = 0 /\ count = 0
    /\ tot = RInt(0) /\ offsets = << >> /\ weights = << >> /\ seen = << >>
    /\ last = NoIter /\ oob = FALSE /\ out = NoValue /\ ret = NoValue
    /\ GenIdle /\ PixelIdle

LineInit == LineEntry(LineWidths)

\* One iteration of the loop over i.
LineIter ==
    /\ fn = "line" /\ pc = "loop" /\ col < w
    /\ LET y == LineRow(h, col)
           idx == ReadIndex(StrideArg(w, pitch), col, y)
           sf == ScaleFactor(w, LINEIMG_SRC_WIDTH)
       IN \E g \in (IF InBuffer(idx) THEN {0} ELSE OobBytes) :
             LET v == PixelByte(idx, g)
                 weight == R(v - 50, 200)
                 offset == LineOffset(w, col)
                 res == Rescale(sf, offset, weight)
             IN /\ tot' = Accumulate(tot, weight, res.weight)
                /\ offsets' = [k \in DOMAIN offsets \cup {col} |->
                                  IF k = col THEN res.offset ELSE offsets[k]]
                /\ weights' = [k \in DOMAIN weights \cup {col} |->
                                  IF k = col THEN res.weight ELSE weights[k]]
                /\ seen' = Append(seen, v)
                /\ oob' = (oob \/ ~InBuffer(idx))
                /\ last' = [strip |-> 0, col |-> col, emit |-> TRUE,
                            reads |-> {[x |-> col, y |-> y, idx |-> idx]}, idx |-> col,
                            offset0 |-> offset, weight0 |-> weight,
                            offset |-> res.offset, weight |-> res.weight,
                            rescaled |-> res.rescaled]
    /\ col' = col + 1
    /\ UNCHANGED <<fn, pc, srgb, pitch, ret, genVars, pixelVars, w, h, img, strip, count, out>>

LineReturn ==
    /\ fn = "line" /\ pc = "loop" /\ col >= w
    /\ out' = Area(tot, ScaleFactor(w, LINEIMG_SRC_WIDTH))
    /\ ret' = ScaleFactor(w, LINEIMG_SRC_WIDTH)
    /\ pc' = "done"
    /\ UNCHANGED <<fn, srgb, pitch, genVars, pixelVars,
                   w, h, img, strip, col, count, tot, offsets, weights, last, seen, oob>>

LineNext == LineIter \/ LineReturn

SpecLine == LineInit /\ [][LineNext]_vars

\* Both analyzers.
SpecAnalyze == (DotInit \/ LineInit) /\ [][DotNext \/ LineNext]_vars

\* Both analyzers, called with the widths forced to twice and to half the
\* source width.
SpecForced ==
    (DotEntry(DotForcedWidths) \/ LineEntry(LineForcedWidths))
        /\ [][DotNext \/ LineNext]_vars

----------------------------------------------------------------------------
(* Claims about both analyzers *)

\* The source width the running analyzer divides by.
SrcWidth == IF fn = "dot" THEN DOTIMG_SRC_WIDTH ELSE LINEIMG_SRC_WIDTH
Analyzing == fn \in {"dot", "line"}

C2_AsStated ==
    (Analyzing /\ last.emit) =>
        /\ w = 2 * SrcWidth =>
              (last.rescaled = "weight" /\ last.offset = last.offset0)
        /\ w = SrcWidth \div 2 =>
              (last.rescaled = "offset" /\ last.weight = last.weight0)

(* C2 as amended: with w = 2*SRC_WIDTH (scale_factor above 1) the offset   *)
(* is divided by scale_factor and the weight is left alone; with           *)
(* w = SRC_WIDTH/2 (scale_factor below 1) the weight is divided by         *)
(* scale_factor and the offset is left alone.                              *)
C2_UpscaleOffsetDownscaleWeight ==
    (Analyzing /\ last.emit) =>
        /\ w = 2 * SrcWidth =>
              /\ last.rescaled = "offset"
              /\ RMul(last.offset, RInt(2)) = last.offset0
              /\ last.weight = last.weight0
        /\ w = SrcWidth \div 2 =>
              /\ last.rescaled = "weight"
              /\ RMul(last.weight, R(SrcWidth \div 2, SrcWidth)) = last.weight0
              /\ last.offset = last.offset0

\* A dot sample at twice the source width whose offset was halved.
C2_Witness ==
    /\ fn = "dot" /\ w = 2 * DOTIMG_SRC_WIDTH /\ last.emit
    /\ last.offset0.n # 0
    /\ last.offset # last.offset0
    /\ last.weight = last.weight0 /\ last.weight.n # 0

(* C8 as stated: the analyzers read pixel (x, y) at index y*stride + x,    *)
(* stride being the raster's own row stride, also when stride > w.         *)
C8_AsStated ==
    Analyzing =>
        \A r \in last.reads : r.idx = r.y * pitch + r.x /\ 0 <= r.x /\ r.x < w

(* C8 as amended: read_pixel reads index y*stride + x, and both analyzers  *)
(* pass w as the stride, so they read index y*w + x with 0 <= x < w.  That *)
(* is the byte of pixel (x, y) when the raster is contiguous (stride = w); *)
(* when the raster's rows are more than w bytes apart, it is another byte  *)
(* for every row after the first.                                          *)
C8_StrideIsWidth ==
    Analyzing =>
        \A r \in last.reads :
            /\ r.idx = r.y * w + r.x /\ 0 <= r.x /\ r.x < w
            /\ pitch = w => r.idx = r.y * pitch + r.x
            /\ (pitch > w /\ r.y >= 1) => r.idx # r.y * pitch + r.x

\* A read of the line analyzer below the first row of a raster whose rows
\* are more than w bytes apart.
C8_Witness ==
    /\ fn = "line" /\ pitch > w /\ w > 1
    /\ \E r \in last.reads : r.y >= 1 /\ r.x >= 1

----------------------------------------------------------------------------
(* Claims about rs_analyze_dot *)

\* last records an iteration of the loop over dstpos.
DotIterated == fn = "dot" /\ "strip" \in DOMAIN last

\* The candidate centers of strip s: k = 12 + s + 25n < 545.
Candidates(s) == {k \in {12 + s + 25 * n : n \in 0 .. 22} : k < 545}

\* |dstpos - zp| for zp = scale_factor*(k + 0.5 - 557/2) + w/2 - 0.5.
RAbs(a) == [n |-> Abs(a.n), d |-> a.d]
Distance(d, k) ==
    LET zp == RSub(RAdd(RMul(R(w, 557), R(2 * k + 1 - 557, 2)), R(w, 2)), R(1, 2))
    IN RAbs(RSub(RInt(d), zp))

\* scale_factor * 12
Reach == RMul(R(w, 557), RInt(12))

\* Some candidate of strip s is nearer to column d than Reach.
Within(s, d) == \E k \in Candidates(s) : RLess(Distance(d, k), Reach)
\* Some candidate is at exactly Reach from column d.
AtReach(s, d) == \E k \in Candidates(s) : Distance(d, k) = Reach

(* C4 as stated: a sample is emitted for (strip, dstpos) if and only if    *)
(* the smallest |dstpos - zp| over the candidate centers is at most        *)
(* scale_factor * 12; the count never exceeds 25 * w.  (Stated for calls    *)
(* that keep the precondition h = 275.)                                    *)
C4_AsStated ==
    (DotIterated /\ h = DOTIMG_DST_HEIGHT /\ pitch = w) =>
        /\ last.emit <=> (Within(last.strip, last.col) \/ AtReach(last.strip, last.col))
        /\ count <= 25 * w

\* What every state of rs_analyze_dot satisfies.
C4_State ==
    DotIterated =>
        /\ IF Within(last.strip, last.col) THEN last.emit
           ELSE IF AtReach(last.strip, last.col) THEN (w % 557 = 0 => last.emit)
           ELSE ~last.emit
        /\ count <= 25 * w
        /\ count <= strip * w + col
        /\ pc = "done" => out = count

\* What every step of rs_analyze_dot satisfies: the pairs are visited in
\* strip-major, then column order, and a sample goes to index count, which
\* then grows by one; nothing else changes count.
C4_Step ==
    fn = "dot" =>
        /\ \/ <<strip', col'>> = <<strip, col>>
           \/ <<strip', col'>> = (IF col + 1 < w THEN <<strip, col + 1>> ELSE <<strip + 1, 0>>)
        /\ LET emitted == /\ <<strip', col'>> # <<strip, col>>
                          /\ last'.emit
           IN /\ count' = IF emitted THEN count + 1 ELSE count
              /\ emitted => (last'.idx = count /\ last'.strip = strip /\ last'.col = col)

(* C4 as amended: a sample is emitted for (strip, dstpos) when the         *)
(* smallest |dstpos - zp| over the candidate centers is below              *)
(* scale_factor * 12 and none is emitted when it is above; when it is      *)
(* equal to scale_factor * 12 as a real number, a sample is emitted if w   *)
(* is a multiple of 557 (the doubles are exact) and otherwise the rounding *)
(* of the doubles decides.  out_count is the number of samples emitted,    *)
(* at most 25 * w, and the samples are stored in strip-major, then column  *)
(* order.                                                                  *)
C4_SkipRule == [](C4_State) /\ [][C4_Step]_vars

\* A pair skipped because every candidate is farther than the reach, after
\* samples were stored, and in a raster whose width is not a multiple of 557.
C4_Witness ==
    /\ DotIterated /\ ~last.emit
    /\ ~Within(last.strip, last.col) /\ ~AtReach(last.strip, last.col)
    /\ count > 0 /\ w % 557 # 0

(* C6: the output of rs_generate_dot_pattern fed unchanged to              *)
(* rs_analyze_dot (w = 557, h = 275, raw mode) returns scale_factor 1; a   *)
(* column that holds a BRIGHT pixel in the strip's center row emits a      *)
(* sample of offset 0 and weight 1, and every other emitted sample has a   *)
(* nonzero integer offset of magnitude at most 12 and weight 0.            *)
C6_IdentityScale ==
    (fn = "dot" /\ img = "dotsrc") =>
        /\ pc = "done" => ret = RInt(1)
        /\ DotIterated =>
              IF DotPixelValue(last.col, 11 * last.strip + 5) = BRIGHT
              THEN last.emit /\ last.offset = RInt(0) /\ last.weight = RInt(1)
              ELSE last.emit =>
                      /\ last.offset.d = 1 /\ last.offset.n # 0
                      /\ Abs(last.offset.n) <= 12
                      /\ last.weight = RInt(0)

\* The sample of the last dot of the last strip.
C6_Witness ==
    /\ fn = "dot" /\ img = "dotsrc" /\ DotIterated
    /\ last.strip = 24 /\ last.col = 536
    /\ last.emit /\ last.offset = RInt(0) /\ last.weight = RInt(1)

(* C9: rs_analyze_dot never consults h: an emitted (strip, dstpos) reads   *)
(* rows 11*strip .. 11*strip + 10, all within 0..274.  With h = 275 and a  *)
(* buffer of w*h bytes every byte read has an index in [0, w*h) and every  *)
(* sample is stored at an index in [0, 25*w); with h < 275 the same rows   *)
(* are read, so a call that returns has read past the end of the buffer,   *)
(* and it returns the scale factor and the count as usual.                 *)
C9_HeightUnchecked ==
    fn = "dot" =>
        /\ (DotIterated /\ last.emit) =>
              /\ {r.y : r \in last.reads} = (11 * last.strip) .. (11 * last.strip + 10)
              /\ \A r \in last.reads : 0 <= r.y /\ r.y <= 274
        /\ (h = 275 /\ pitch = w) =>
              /\ \A r \in last.reads : 0 <= r.idx /\ r.idx < w * h
              /\ last.emit => (0 <= last.idx /\ last.idx < 25 * w)
              /\ ~oob /\ pc # "fault"
        /\ (h < 275 /\ pitch = w /\ pc = "done") =>
              /\ oob
              /\ ret = R(w, 557) /\ out = count

\* A call with h = 274 that returned after reading row 274.
C9_Witness ==
    /\ fn = "dot" /\ h = 274 /\ pitch = w /\ pc = "done" /\ oob
    /\ last.emit /\ \E r \in last.reads : r.y = 274 /\ r.idx >= w * h

----------------------------------------------------------------------------
(* Claims about rs_analyze_line *)

RECURSIVE SumSeq(_, _)
SumSeq(q, k) == IF k > Len(q) THEN 0 ELSE q[k] + SumSeq(q, k + 1)

C10_RowsAndOrder ==
    fn = "line" =>
        /\ last.emit =>
              \A r \in last.reads :
                  /\ r.x = last.col
                  /\ 0 <= r.y /\ r.y <= h - 1
                  /\ h >= 3 => r.y = (h \div 2) + (last.col % 3) - 1
                  /\ h < 3 => r.y = h \div 2
        /\ last.emit => (last.idx = last.col /\ last.col = col - 1)
        /\ DOMAIN offsets = 0 .. col - 1 /\ DOMAIN weights = 0 .. col - 1
        /\ \A i \in DOMAIN offsets :
              offsets[i] = IF w < 15 THEN R(1 + 2 * i - w, 2)
                           ELSE RDiv(R(1 + 2 * i - w, 2), R(w, 15))
        /\ pc = "done" => (col = w /\ DOMAIN offsets = 0 .. w - 1)

\* A finished call on a raster of two rows, and one column read per
\* residue of i mod 3.
C10_Witness ==
    /\ fn = "line" /\ pc = "done" /\ h = 2 /\ w >= 3
    /\ DOMAIN weights = 0 .. w - 1

============================================================================
